---- MODULE Spec2Model ----
(***************************************************************************)
(* Model of wsrl/networks/actor_critic_nets.py: the Policy head, the       *)
(* tanh-squashed diagonal Gaussian and the ensembling wrapper.             *)
(*                                                                         *)
(* Real numbers are fixed-point integers in units of 1/Scale.  A vector    *)
(* is a sequence of such numbers.  Python's None is the empty sequence     *)
(* for vector-valued fields.                                               *)
(***************************************************************************)
EXTENDS Integers, Sequences, FiniteSets, TLC

VARIABLES policy, out, dist, res, ens

vars == <<policy, out, dist, res, ens>>

\* ------------------------------------------------------------------ bounds
MaxDim == 2
MaxHeads == 2
MaxBatch == 2

\* ------------------------------------------------------------ number model
Scale == 1000

None == <<>>

Min(a, b) == IF a <= b THEN a ELSE b
Max(a, b) == IF a >= b THEN a ELSE b
Abs(a) == IF a < 0 THEN -a ELSE a

\* product of two fixed-point numbers
Mul(a, b) == (a * b) \div Scale

RECURSIVE SqrtSearch(_, _, _)
SqrtSearch(n, lo, hi) ==
    IF lo >= hi THEN lo
    ELSE LET mid == (lo + hi + 1) \div 2
         IN  IF mid * mid <= n THEN SqrtSearch(n, mid, hi)
             ELSE SqrtSearch(n, lo, mid - 1)

\* jnp.sqrt on a fixed-point number t >= 0 : floor(sqrt(t / Scale) * Scale)
sqrt(t) == SqrtSearch(t * Scale, 0, t + Scale)

\* jnp.exp on the raw values the model draws (rounded to 1/Scale)
exp(x) ==
    CASE x = -5000 -> 7
      [] x = 3000  -> 20086

\* nn.softplus on the raw values the model draws (rounded to 1/Scale)
softplus(x) ==
    CASE x = -5000 -> 7
      [] x = 3000  -> 3049

\* jnp.clip(x, a_min, a_max) = minimum(maximum(x, a_min), a_max)
clip(x, a_min, a_max) == Min(Max(x, a_min), a_max)

RECURSIVE Sum(_)
Sum(v) == IF v = <<>> THEN 0 ELSE Head(v) + Sum(Tail(v))

\* ------------------------------------------------- distrax library pieces
\* jnp.tanh in floating point, on the values the model draws.  Inputs of
\* magnitude 20 are past the point where tanh rounds to exactly 1.0 in both
\* float32 and float64.
tanhAbs(a) ==
    CASE a = 0     -> 0
      [] a = 1000  -> 762
      [] a = 2000  -> 964
      [] a = 20000 -> 1000

tanh(x) == IF x < 0 THEN -tanhAbs(-x) ELSE tanhAbs(x)

\* jnp.arctanh on the images of tanh that lie strictly inside (-1, 1)
arctanhAbs(a) ==
    CASE a = 0   -> 0
      [] a = 762 -> 1000
      [] a = 964 -> 2000

arctanh(y) == IF y < 0 THEN -arctanhAbs(-y) ELSE arctanhAbs(y)

\* jnp.log on the positive values the model draws
log(x) ==
    CASE x = 500  -> -693
      [] x = 1000 -> 0
      [] x = 2000 -> 693
      [] x = 4000 -> 1386

\* distrax.Tanh.forward_log_det_jacobian(x) = 2 * (log 2 - x - softplus(-2x))
TanhFldj(x) ==
    LET a == Abs(x)
    IN  CASE a = 0     -> 0
          [] a = 1000  -> -868
          [] a = 2000  -> -2650
          [] a = 20000 -> -38614

\* 0.5 * log(2 * pi)
HalfLog2Pi == 919

\* distrax.MultivariateNormalDiag(loc, scale_diag).log_prob(x)
NormalLogProb(loc, scale_diag, x) ==
    Sum([i \in 1..Len(x) |->
            LET z == ((x[i] - loc[i]) * Scale) \div scale_diag[i]
            IN  0 - (Mul(z, z) \div 2) - log(scale_diag[i]) - HalfLog2Pi])

\* distrax.MultivariateNormalDiag(loc=..., scale_diag=...)
MultivariateNormalDiag(loc, scale_diag) ==
    [cls |-> "MultivariateNormalDiag", loc |-> loc, scale_diag |-> scale_diag,
     low |-> None, high |-> None, layers |-> <<>>]

NoDist ==
    [cls |-> "None", loc |-> None, scale_diag |-> None,
     low |-> None, high |-> None, layers |-> <<>>]

\* ----------------------------------------------- TanhMultivariateNormalDiag
\* the layers list built by __init__: the affine rescale is appended first,
\* and only when both bounds are supplied; the tanh block is appended last
LayersTanhOnly(low, high) == <<"Tanh">>

Layers(low, high) ==
    (IF ~(low = None \/ high = None) THEN <<"rescale_from_tanh">> ELSE <<>>)
        \o <<"Tanh">>

TanhMultivariateNormalDiag(loc, scale_diag, low, high) ==
    [cls |-> "TanhMultivariateNormalDiag", loc |-> loc, scale_diag |-> scale_diag,
     low |-> low, high |-> high, layers |-> Layers(low, high)]

rescale_no_shift(d, x) ==
    [i \in 1..Len(x) |-> Mul(x[i], d.high[i] - d.low[i]) + d.low[i]]

\* rescale_from_tanh(x): x = (x + 1) / 2 ; x * (high - low) + low
rescale_from_tanh(d, x) ==
    [i \in 1..Len(x) |->
        Mul((x[i] + Scale) \div 2, d.high[i] - d.low[i]) + d.low[i]]

\* distrax's automatic inverse of rescale_from_tanh
rescale_inverse(d, y) ==
    [i \in 1..Len(y) |->
        (((y[i] - d.low[i]) * Scale) \div (d.high[i] - d.low[i])) * 2 - Scale]

log_det_without_half(d, x) ==
    Sum([i \in 1..Len(x) |-> log(d.high[i] - d.low[i])])

\* forward_log_det_jacobian(x) = sum(log(0.5 * (high_ - low_)), -1)
forward_log_det_jacobian(d, x) ==
    Sum([i \in 1..Len(x) |-> log(Mul(Scale \div 2, d.high[i] - d.low[i]))])

\* one layer's forward
LayerForward(name, d, x) ==
    IF name = "rescale_from_tanh" THEN rescale_from_tanh(d, x) ELSE [i \in 1..Len(x) |-> tanh(x[i])]

\* one layer's inverse_and_log_det; distrax.Lambda derives the inverse
\* log-determinant as -forward_log_det_jacobian(inverse(y)), distrax.Block
\* sums the tanh term over the event dimension
LayerInverseAndLogDet(name, d, y) ==
    IF name = "rescale_from_tanh"
    THEN LET x == rescale_inverse(d, y)
         IN  [x |-> x, ld |-> 0 - forward_log_det_jacobian(d, x)]
    ELSE LET x == [i \in 1..Len(y) |-> arctanh(y[i])]
         IN  [x |-> x, ld |-> 0 - Sum([i \in 1..Len(x) |-> TanhFldj(x[i])])]

\* distrax.Chain(layers).forward: the last layer of the list is applied first
RECURSIVE ChainForward(_, _, _)
ChainForward(layers, d, x) ==
    IF layers = <<>> THEN x
    ELSE LayerForward(Head(layers), d, ChainForward(Tail(layers), d, x))

\* distrax.Chain(layers).inverse_and_log_det: the first layer of the list is
\* inverted first, the log-determinants are added up
RECURSIVE ChainInverseAndLogDet(_, _, _)
ChainInverseAndLogDet(layers, d, y) ==
    IF layers = <<>> THEN [x |-> y, ld |-> 0]
    ELSE LET first == LayerInverseAndLogDet(Head(layers), d, y)
             rest  == ChainInverseAndLogDet(Tail(layers), d, first.x)
         IN  [x |-> rest.x, ld |-> first.ld + rest.ld]

\* mode(): bijector.forward(distribution.mode()); the plain Gaussian's mode
\* is its loc
mode(d) ==
    IF d.cls = "TanhMultivariateNormalDiag"
    THEN ChainForward(d.layers, d, d.loc)
    ELSE d.loc

\* distrax.Transformed.log_prob(y) = distribution.log_prob(x) + ildj(y)
log_prob(d, y) ==
    LET inv == ChainInverseAndLogDet(d.layers, d, y)
    IN  NormalLogProb(d.loc, d.scale_diag, inv.x) + inv.ld

\* ------------------------------------------------------------------ Policy
\* the fields of a Policy module; fixed_std is [kind, val] with kind "None",
\* "number" (val = <<n>>), "list" or "tuple" (val = the entries)
NoPolicy ==
    [action_dim |-> 0, std_parameterization |-> "None", std_min |-> 0,
     std_max |-> 0, tanh_squash_distribution |-> FALSE,
     fixed_std |-> [kind |-> "None", val |-> None]]

NoOut ==
    [status |-> "none", error |-> "", message |-> <<>>, stds_pre |-> None,
     stds_clip |-> None, temperature |-> 0, params |-> {}]

Raised(error, message, params) ==
    [status |-> "raised", error |-> error, message |-> message,
     stds_pre |-> None, stds_clip |-> None, temperature |-> 0, params |-> params]

\* lines 114-139: the spread before clipping when fixed_std is None, or the
\* ValueError.  log_stds stands for the output of the second Dense layer
\* (exp, softplus: the raw values) and for the log_stds parameter (uniform).
LearnedStds(p, log_stds) ==
    CASE p.std_parameterization = "exp" ->
            [ok |-> TRUE, stds |-> [i \in 1..Len(log_stds) |-> exp(log_stds[i])],
             params |-> {"Dense_0", "Dense_1"}]
      [] p.std_parameterization = "softplus" ->
            [ok |-> TRUE, stds |-> [i \in 1..Len(log_stds) |-> softplus(log_stds[i])],
             params |-> {"Dense_0", "Dense_1"}]
      [] p.std_parameterization = "uniform" ->
            [ok |-> TRUE, stds |-> [i \in 1..Len(log_stds) |-> exp(log_stds[i])],
             params |-> {"Dense_0", "log_stds"}]
      [] OTHER ->
            [ok |-> FALSE, error |-> "ValueError",
             message |-> <<"Invalid std_parameterization: ",
                           p.std_parameterization>>,
             params |-> {"Dense_0"}]

FixedStdsNoBroadcast(p) ==
    IF p.fixed_std.kind \in {"list", "number"}
    THEN [ok |-> TRUE, stds |-> p.fixed_std.val, params |-> {"Dense_0"}]
    ELSE [ok |-> FALSE, error |-> "AssertionError",
          message |-> <<"fixed std must be a number">>, params |-> {"Dense_0"}]

\* lines 142-149: the spread before clipping from a supplied fixed_std
FixedStds(p) ==
    IF p.fixed_std.kind = "list"
    THEN [ok |-> TRUE, stds |-> p.fixed_std.val, params |-> {"Dense_0"}]
    ELSE IF p.fixed_std.kind = "number"
         THEN [ok |-> TRUE,
               stds |-> [i \in 1..p.action_dim |-> p.fixed_std.val[1]],
               params |-> {"Dense_0"}]
         ELSE [ok |-> FALSE, error |-> "AssertionError",
               message |-> <<"fixed std must be a number">>,
               params |-> {"Dense_0"}]

StdsNoAssert(p, log_stds) ==
    IF p.fixed_std.kind = "None" THEN LearnedStds(p, log_stds) ELSE FixedStds(p)

\* lines 113-149: the spread before clipping, or the exception raised
Stds(p, log_stds) ==
    IF p.fixed_std.kind = "None"
    THEN LearnedStds(p, log_stds)
    ELSE IF p.std_parameterization # "fixed"
         THEN [ok |-> FALSE, error |-> "AssertionError", message |-> <<>>,
               params |-> {"Dense_0"}]
         ELSE FixedStds(p)

ClipStdsOnlyMax(p, stds) == [i \in 1..Len(stds) |-> Min(stds[i], p.std_max)]

\* line 153: stds = jnp.clip(stds, std_min, std_max) * jnp.sqrt(temperature)
ClipStds(p, stds) == [i \in 1..Len(stds) |-> clip(stds[i], p.std_min, p.std_max)]

ScaleStdsNoSqrt(stds, temperature) ==
    [i \in 1..Len(stds) |-> Mul(stds[i], temperature)]

ScaleStds(stds, temperature) ==
    LET root == sqrt(temperature)
    IN  [i \in 1..Len(stds) |-> Mul(stds[i], root)]

\* lines 155-164: the distribution built from means and stds
Distribution(p, means, stds) ==
    IF p.tanh_squash_distribution
    THEN TanhMultivariateNormalDiag(means, stds, None, None)
    ELSE MultivariateNormalDiag(means, stds)

\* -------------------------------------------------------------- ensemblize
\* jax.random.split(rng, n)[i]: n new keys, pairwise different
Split(rng, i) == <<rng, i>>

\* the initializer of the head's final Dense layer: a parameter value drawn
\* deterministically from the key
Initializer(key) == (((key[1] * 3 + key[2] * 5) % 7) - 3) * Scale

\* the replicated head on a batch x: one value per batch element
HeadApply(param, x) == [b \in 1..Len(x) |-> Mul(param, x[b])]

\* nn.vmap(cls, variable_axes, split_rngs, in_axes, out_axes, axis_size)
vmap(variable_axes, split_rngs, in_axes, out_axes, axis_size) ==
    [variable_axes |-> variable_axes, split_rngs |-> split_rngs,
     in_axes |-> in_axes, out_axes |-> out_axes, axis_size |-> axis_size,
     keys |-> <<>>, params |-> <<>>, x |-> <<>>, out |-> <<>>]

ensemblizeSharedRng(num_qs, out_axes) == vmap(0, FALSE, "None", out_axes, num_qs)

\* lines 75-83
ensemblize(num_qs, out_axes) == vmap(0, TRUE, "None", out_axes, num_qs)

\* the rng each replica initializes its parameters from
VmapKeys(e, rng) ==
    [i \in 1..e.axis_size |-> IF e.split_rngs THEN Split(rng, i) ELSE <<rng, 0>>]

\* the input replica i sees: the whole input when in_axes is None, slice i
\* of it otherwise
VmapInput(e, x, i) == IF e.in_axes = "None" THEN x ELSE <<x[i]>>

\* the replicas' outputs stacked along axis out_axes (0 or 1)
VmapStack(e, outs) ==
    IF e.out_axes = 0 THEN outs
    ELSE [b \in 1..Len(outs[1]) |-> [i \in 1..Len(outs) |-> outs[i][b]]]

\* ------------------------------------------------------------- input sets
ActionDims == 1..MaxDim
Vec(d, S) == [1..d -> S]

StdParameterizations == {"exp", "softplus", "uniform", "fixed", "gaussian"}
\* (std_min, std_max) pairs, std_min < std_max: (0.01, 10.0), (0.005, 30.0)
StdRanges == {<<10, 10000>>, <<5, 30000>>}
FixedStdInputs(d) ==
    {[kind |-> "None", val |-> None], [kind |-> "number", val |-> <<500>>],
     [kind |-> "list", val |-> [i \in 1..d |-> 500 + 1000 * (i - 1)]],
     [kind |-> "tuple", val |-> [i \in 1..d |-> 500 + 1000 * (i - 1)]]}

PolicyConfigs ==
    UNION {{[action_dim |-> d, std_parameterization |-> sp, std_min |-> r[1],
             std_max |-> r[2], tanh_squash_distribution |-> t, fixed_std |-> f] :
                sp \in StdParameterizations, r \in StdRanges,
                t \in BOOLEAN, f \in FixedStdInputs(d)} : d \in ActionDims}

MeanVals == {0, 20000}
RawVals == {-5000, 3000}
Temperatures == {0, 250, 1000, 4000}

\* ----------------------------------------------------------------- actions
\* the result of the last operation on the distribution: none yet
NoRes == [op |-> "none", arg |-> None, val |-> None, ld |-> 0]

\* Policy.__call__(observations, temperature): means and log_stds are what
\* the Dense layers (the log_stds parameter) yield on the observation
PolicyCall(means, log_stds, temperature) ==
    LET s == Stds(policy, log_stds)
    IN  /\ IF s.ok
           THEN LET clipped == ClipStds(policy, s.stds)
                    stds    == ScaleStds(clipped, temperature)
                IN  /\ out' = [status |-> "returned", error |-> "",
                               message |-> <<>>, stds_pre |-> s.stds,
                               stds_clip |-> clipped,
                               temperature |-> temperature, params |-> s.params]
                    /\ dist' = Distribution(policy, means, stds)
           ELSE /\ out' = Raised(s.error, s.message, s.params)
                /\ dist' = NoDist
        /\ res' = NoRes
        /\ UNCHANGED <<policy, ens>>

\* distribution.mode()
Mode ==
    /\ dist.cls # "None"
    /\ res' = [op |-> "mode", arg |-> None, val |-> mode(dist), ld |-> 0]
    /\ UNCHANGED <<policy, out, dist, ens>>

NoEns == vmap(0, FALSE, "None", 0, 0)

Init ==
    /\ policy \in PolicyConfigs
    /\ out = NoOut
    /\ dist = NoDist
    /\ res = NoRes
    /\ ens = NoEns

Next ==
    \/ \E means \in Vec(policy.action_dim, MeanVals),
          log_stds \in Vec(policy.action_dim, RawVals),
          temperature \in Temperatures :
            PolicyCall(means, log_stds, temperature)
    \/ Mode

Spec == Init /\ [][Next]_vars

\* ------------------------------------------- the distribution on its own
LocVals == {-20000, 0, 1000}
ScaleVals == {500, 2000}
LowVals == {-2000, 0}
HighVals == {2000}
BaseVals == {-1000, 20000}
InvertibleVals == {-1000, 2000}

TanhDists ==
    UNION {{TanhMultivariateNormalDiag(loc, scale_diag, low, high) :
                loc \in Vec(d, LocVals), scale_diag \in Vec(d, ScaleVals),
                low \in {None} \cup Vec(d, LowVals),
                high \in {None} \cup Vec(d, HighVals)} : d \in ActionDims}

\* distrax.Transformed.sample: x drawn from the base Gaussian, then forward
Sample(x) ==
    /\ dist.cls = "TanhMultivariateNormalDiag"
    /\ res' = [op |-> "sample", arg |-> x,
               val |-> ChainForward(dist.layers, dist, x), ld |-> 0]
    /\ UNCHANGED <<policy, out, dist, ens>>

\* distribution.log_prob(y), y an action the distribution can sample
LogProb(y) ==
    /\ dist.cls = "TanhMultivariateNormalDiag"
    /\ res' = [op |-> "log_prob", arg |-> y, val |-> <<log_prob(dist, y)>>,
               ld |-> ChainInverseAndLogDet(dist.layers, dist, y).ld]
    /\ UNCHANGED <<policy, out, dist, ens>>

InitDist ==
    /\ policy = NoPolicy
    /\ out = NoOut
    /\ dist \in TanhDists
    /\ res = NoRes
    /\ ens = NoEns

NextDist ==
    \/ Mode
    \/ \E x \in Vec(Len(dist.loc), BaseVals) : Sample(x)
    \/ \E x \in Vec(Len(dist.loc), InvertibleVals) :
            LogProb(ChainForward(dist.layers, dist, x))

SpecDist == InitDist /\ [][NextDist]_vars

\* ------------------------------------------------- the ensemble on its own
Seeds == 0..3
FeatureVals == {-1000, 0, 1000, 2000}

\* module.init(rng, x): every replica's parameters from its own key
EnsembleInit(rng) ==
    LET keys == VmapKeys(ens, rng)
    IN  /\ ens' = [ens EXCEPT !.keys = keys,
                              !.params = [i \in 1..ens.axis_size |->
                                             Initializer(keys[i])],
                              !.x = <<>>, !.out = <<>>]
        /\ UNCHANGED <<policy, out, dist, res>>

\* module.apply(params, x)
EnsembleApply(x) ==
    /\ ens.params # <<>>
    /\ ens' = [ens EXCEPT !.x = x,
                          !.out = VmapStack(ens,
                                     [i \in 1..ens.axis_size |->
                                         HeadApply(ens.params[i],
                                                   VmapInput(ens, x, i))])]
    /\ UNCHANGED <<policy, out, dist, res>>

InitEns ==
    /\ policy = NoPolicy
    /\ out = NoOut
    /\ dist = NoDist
    /\ res = NoRes
    /\ ens \in {ensemblize(n, a) : n \in 1..MaxHeads, a \in {0, 1}}

NextEns ==
    \/ \E rng \in Seeds : EnsembleInit(rng)
    \/ \E b \in 1..MaxBatch : \E x \in Vec(b, FeatureVals) : EnsembleApply(x)

SpecEns == InitEns /\ [][NextEns]_vars

\* ================================================================== claims
Called == out.status # "none"
Returned == out.status = "returned"
Known == {"exp", "softplus", "uniform", "fixed"}
InRange(lo, x, hi) == lo <= x /\ x <= hi
BothBounds == dist.low # None /\ dist.high # None
Dims == 1..Len(dist.loc)

\* C1: whenever Policy.__call__ returns, every element of the spread handed
\* to the distribution lies in [std_min * sqrt(temperature),
\* std_max * sqrt(temperature)].
C1_SpreadWithinScaledBounds ==
    Returned =>
        \A i \in 1..Len(dist.scale_diag) :
            InRange(Mul(policy.std_min, sqrt(out.temperature)),
                    dist.scale_diag[i],
                    Mul(policy.std_max, sqrt(out.temperature)))

\* a call at temperature 4 whose raw spread was above std_max: the spread
\* handed over is std_max * 2
C1_Witness ==
    /\ Returned
    /\ out.temperature = 4000
    /\ out.stds_pre[1] > policy.std_max
    /\ dist.scale_diag[1] = 2 * policy.std_max

\* C2 (as claimed): a std_parameterization outside the four known values
\* makes the call raise an error whose message contains the value, and no
\* distribution is returned, whether or not fixed_std is supplied.
C2_UnknownParameterizationNamed ==
    (Called /\ policy.std_parameterization \notin Known) =>
        /\ out.status = "raised"
        /\ dist = NoDist
        /\ \E k \in 1..Len(out.message) :
                out.message[k] = policy.std_parameterization

\* C3: a call returns a distribution only when fixed_std is supplied exactly
\* when the parameterization is "fixed"; "fixed" without fixed_std raises
\* (no default spread), and a supplied fixed_std with another
\* parameterization raises too.
C3_FixedStdIffFixed ==
    /\ Returned =>
          ((policy.fixed_std.kind # "None") <=>
                (policy.std_parameterization = "fixed"))
    /\ (Called /\ policy.std_parameterization = "fixed"
            /\ policy.fixed_std.kind = "None") =>
          (out.status = "raised" /\ out.error = "ValueError" /\ dist = NoDist
             /\ out.stds_pre = None)
    /\ (Called /\ policy.std_parameterization # "fixed"
            /\ policy.fixed_std.kind # "None") =>
          (out.status = "raised" /\ dist = NoDist)

\* "fixed" without fixed_std has been called and has raised
C3_Witness ==
    /\ policy.std_parameterization = "fixed"
    /\ policy.fixed_std.kind = "None"
    /\ out.status = "raised"
    /\ out.error = "ValueError"

C7_SpreadWithinUnscaledBounds ==
    Returned =>
        \A i \in 1..Len(dist.scale_diag) :
            InRange(policy.std_min, dist.scale_diag[i], policy.std_max)

\* C7 (amended): the spread is clamped into [std_min, std_max] before it is
\* multiplied by sqrt(temperature); the distribution gets the product, which
\* is inside [std_min, std_max] at temperature 1.
C7_ClampedThenScaled ==
    Returned =>
        /\ Len(dist.scale_diag) = Len(out.stds_pre)
        /\ \A i \in 1..Len(dist.scale_diag) :
            /\ InRange(policy.std_min, out.stds_clip[i], policy.std_max)
            /\ out.stds_clip[i] = (IF out.stds_pre[i] < policy.std_min
                                   THEN policy.std_min
                                   ELSE IF out.stds_pre[i] > policy.std_max
                                        THEN policy.std_max
                                        ELSE out.stds_pre[i])
            /\ dist.scale_diag[i] * Scale <=
                    out.stds_clip[i] * sqrt(out.temperature)
            /\ dist.scale_diag[i] * Scale >
                    out.stds_clip[i] * sqrt(out.temperature) - Scale
            /\ (out.temperature = Scale =>
                    InRange(policy.std_min, dist.scale_diag[i], policy.std_max))

\* a call at temperature 0: the spread handed over is 0, below std_min
C7_Witness ==
    /\ Returned
    /\ out.temperature = 0
    /\ policy.std_min > 0
    /\ out.stds_pre[1] < policy.std_min
    /\ out.stds_clip[1] = policy.std_min
    /\ dist.scale_diag[1] = 0

\* C5 (as claimed): with exactly one of low / high supplied the constructor
\* aborts, so no distribution object exists.
C5_PartialBoundsAbort ==
    ((dist.low = None) # (dist.high = None)) => dist.cls = "None"

AxisSize(o, axis) == IF axis = 0 THEN Len(o) ELSE Len(o[1])
Slice(o, axis, i) ==
    IF axis = 0 THEN o[i] ELSE [b \in 1..Len(o) |-> o[b][i]]

\* C8: the ensemble's output has axis out_axes of size num_qs, slice i is
\* the head with replica i's parameters on the whole input, and the
\* replicas' parameters are initialized from pairwise different keys.
C8_Ensemble ==
    /\ ens.keys # <<>> =>
          /\ Len(ens.keys) = ens.axis_size
          /\ Len(ens.params) = ens.axis_size
          /\ \A i, j \in 1..ens.axis_size : i # j => ens.keys[i] # ens.keys[j]
          /\ \A i \in 1..ens.axis_size : ens.params[i] = Initializer(ens.keys[i])
    /\ ens.out # <<>> =>
          /\ AxisSize(ens.out, ens.out_axes) = ens.axis_size
          /\ \A i \in 1..ens.axis_size :
                Slice(ens.out, ens.out_axes, i) =
                    [b \in 1..Len(ens.x) |-> Mul(ens.params[i], ens.x[b])]

\* two replicas stacked along axis 1 on a batch of one, with different
\* parameters and different outputs
C8_Witness ==
    /\ ens.axis_size = 2
    /\ ens.out_axes = 1
    /\ Len(ens.x) = 1
    /\ ens.out # <<>>
    /\ ens.params[1] # ens.params[2]
    /\ ens.out[1][1] # ens.out[1][2]

\* the pre-image of an action y under tanh followed by the affine rescale
PreImage(y) ==
    [i \in 1..Len(y) |->
        arctanh((((y[i] - dist.low[i]) * Scale) \div (dist.high[i] - dist.low[i]))
                    * 2 - Scale)]

\* C9: with both bounds, log_prob(y) is the base Gaussian's log-density at
\* the pre-image of y minus the forward log-determinant: the tanh term at
\* the pre-image plus the sum over dimensions of log(0.5 * (high - low)).
C9_LogDensity ==
    (res.op = "log_prob" /\ BothBounds) =>
        LET x == PreImage(res.arg)
        IN  /\ res.val[1] =
                  NormalLogProb(dist.loc, dist.scale_diag, x)
                    - (Sum([i \in Dims |-> TanhFldj(x[i])])
                        + Sum([i \in Dims |->
                                 log((dist.high[i] - dist.low[i]) \div 2)]))
            /\ res.ld = 0 - (Sum([i \in Dims |-> TanhFldj(x[i])])
                        + Sum([i \in Dims |->
                                 log((dist.high[i] - dist.low[i]) \div 2)]))

\* a log-density in two dimensions with low = [-2, 0], high = [2, 2]: the
\* constant is log 2 + log 1
C9_Witness ==
    /\ res.op = "log_prob"
    /\ dist.low = <<-2000, 0>>
    /\ dist.high = <<2000, 2000>>
    /\ res.arg = <<-1524, 1964>>

\* C10: a sample is tanh of the base sample, then rescaled as
\* ((tanh(x) + 1) / 2) * (high - low) + low when both bounds are supplied;
\* with a bound missing the object is still built and the sample is tanh(x).
C10_ForwardMap ==
    /\ dist.cls = "TanhMultivariateNormalDiag"
    /\ res.op = "sample" =>
        /\ Len(res.val) = Len(res.arg)
        /\ \A i \in 1..Len(res.arg) :
            res.val[i] =
                IF BothBounds
                THEN (((tanh(res.arg[i]) + Scale) \div 2)
                        * (dist.high[i] - dist.low[i])) \div Scale + dist.low[i]
                ELSE tanh(res.arg[i])

\* low supplied without high: the object exists and a sample is tanh(x)
C10_Witness ==
    /\ res.op = "sample"
    /\ dist.low = <<-2000>>
    /\ dist.high = None
    /\ res.arg = <<-1000>>
    /\ res.val = <<-762>>

====
